---- MODULE Spec2Model ----
(***************************************************************************)
(* ScamCheck: the entitlement and quota ledger (app/database.py), the      *)
(* routes that use it (app/main.py, app/auth.py), the wallet scoring path   *)
(* (app/checks.py, app/sources.py) and the link checks (app/sources.py).   *)
(*                                                                         *)
(* Time is the integer epoch second of time.time(); a calendar date        *)
(* (date.today().isoformat()) is modelled by its day number, the clock     *)
(* being read in UTC.  A SQL NULL is the integer NULL, which no timestamp, *)
(* day number or counter takes.                                            *)
(***************************************************************************)
EXTENDS Integers, Sequences, FiniteSets, TLC

\* ------------------------------------------------------------------ bounds
\* last calendar day the clock reaches
MaxDay == 2
\* last second of a day the clock reaches by single-second steps
MaxSec == 2
\* largest number of days one set_subscription call is given explicitly
MaxGrantDays == 2
\* a grant is taken while it leaves the expiry at most MaxStack grant lengths ahead of the clock
MaxStack == 2
\* concurrent callers of try_consume_wallet_check
NProcs == 4

\* ------------------------------------------------------- program constants
SecondsPerDay == 86400
DEFAULT_SUBSCRIPTION_DAYS == 30
MAX_FREE_WALLET_CHECKS == 3
NULL == -1
LimitMessage == "Free limit reached (5/day)."
ADMIN_EMAILS == {"admin"}
Emails == {"admin", "user"}
\* the identity every operation of the ledger is called with directly, and
\* the identities its metering operations are called with
LedgerEmails == {"user"}
MeterEmails == Emails

VARIABLES
  now,      \* the system clock, epoch seconds
  users,    \* the users table: email -> row, for the emails that have a row
  ret,      \* the last operation: its name, arguments, the table before it, its result
  pc,       \* concurrent callers: the statement each is at
  loc,      \* concurrent callers: their local variables and results
  lock,     \* the connection holding the database's write lock, 0 for none
  txn,      \* each connection's open transaction: its private copy of the table
  input,    \* the arguments of a scoring call
  served    \* per email: the allowed=True results try_consume_wallet_check gave
            \* its stored, unsubscribed row today since the row's last grant

vars == <<now, users, ret, pc, loc, lock, txn, input, served>>
callers == <<pc, loc, lock, txn>>

\* ------------------------------------------------------------ database.py
\* date.today().isoformat() at clock t
today(t) == t \div SecondsPerDay

\* int(x or 0)
int_or_0(x) == IF x = NULL THEN 0 ELSE x

\* the row INSERT INTO users(email,password_hash) creates, by the column defaults
NewRow ==
  [subscription |-> 0, subscription_until |-> NULL,
   wallet_checks_today |-> 0, last_wallet_check |-> NULL]

create_user(u, e) ==
  [x \in (DOMAIN u) \cup {e} |-> IF x = e THEN NewRow ELSE u[x]]

has_active_subscription_ge(u, e, t) ==
  /\ e \in DOMAIN u
  /\ int_or_0(u[e].subscription) = 1
  /\ int_or_0(u[e].subscription_until) >= t

has_active_subscription(u, e, t) ==
  /\ e \in DOMAIN u
  /\ int_or_0(u[e].subscription) = 1
  /\ int_or_0(u[e].subscription_until) > t

days_left(u, e, t) ==
  IF e \notin DOMAIN u \/ u[e].subscription_until = NULL \/ u[e].subscription_until = 0
  THEN 0
  ELSE LET delta == u[e].subscription_until - t
       IN  IF delta \div SecondsPerDay > 0 THEN delta \div SecondsPerDay ELSE 0

set_subscription_overwrite(u, e, sub, days, t) ==
  LET d == IF days = NULL THEN DEFAULT_SUBSCRIPTION_DAYS ELSE days
  IN  IF e \notin DOMAIN u THEN u
      ELSE IF sub # 0
      THEN [u EXCEPT ![e].subscription = 1,
                     ![e].subscription_until = t + d * SecondsPerDay,
                     ![e].wallet_checks_today = 0,
                     ![e].last_wallet_check = today(t)]
      ELSE [u EXCEPT ![e].subscription = 0, ![e].subscription_until = NULL]

set_subscription_revoke_resets(u, e, sub, days, t) ==
  LET d == IF days = NULL THEN DEFAULT_SUBSCRIPTION_DAYS ELSE days
  IN  IF e \notin DOMAIN u THEN u
      ELSE IF sub # 0
      THEN LET start_ts == IF /\ int_or_0(u[e].subscription) = 1
                              /\ int_or_0(u[e].subscription_until) > t
                           THEN u[e].subscription_until ELSE t
               until_ts == start_ts + d * SecondsPerDay
           IN  [u EXCEPT ![e].subscription = 1,
                         ![e].subscription_until = until_ts,
                         ![e].wallet_checks_today = 0,
                         ![e].last_wallet_check = today(t)]
      ELSE [u EXCEPT ![e].subscription = 0, ![e].subscription_until = NULL,
                     ![e].wallet_checks_today = 0,
                     ![e].last_wallet_check = today(t)]

\* UPDATE ... WHERE email=? changes nothing when no row has that email
set_subscription(u, e, sub, days, t) ==
  LET d == IF days = NULL THEN DEFAULT_SUBSCRIPTION_DAYS ELSE days
  IN  IF e \notin DOMAIN u THEN u
      ELSE IF sub # 0
      THEN LET start_ts == IF /\ int_or_0(u[e].subscription) = 1
                              /\ int_or_0(u[e].subscription_until) > t
                           THEN u[e].subscription_until ELSE t
               until_ts == start_ts + d * SecondsPerDay
           IN  [u EXCEPT ![e].subscription = 1,
                         ![e].subscription_until = until_ts,
                         ![e].wallet_checks_today = 0,
                         ![e].last_wallet_check = today(t)]
      ELSE [u EXCEPT ![e].subscription = 0, ![e].subscription_until = NULL]

reset_daily_always(u, e, t) ==
  IF e \notin DOMAIN u THEN u
  ELSE [u EXCEPT ![e].wallet_checks_today = 0, ![e].last_wallet_check = today(t)]

reset_daily_if_needed(u, e, t) ==
  IF e \notin DOMAIN u THEN u
  ELSE IF u[e].last_wallet_check # today(t)
       THEN [u EXCEPT ![e].wallet_checks_today = 0, ![e].last_wallet_check = today(t)]
       ELSE u

\* the count SELECT wallet_checks_today gives: int(row[...] if row else 0)
used_of(u, e) == IF e \in DOMAIN u THEN u[e].wallet_checks_today ELSE 0

max0(x) == IF x > 0 THEN x ELSE 0

get_wallet_usage(u, e, t) ==
  LET u1 == reset_daily_if_needed(u, e, t)
      used == used_of(u1, e)
  IN  [users |-> u1, used |-> used, left |-> max0(MAX_FREE_WALLET_CHECKS - used)]

try_consume_no_bypass(u, e, t) ==
  LET u1 == reset_daily_if_needed(u, e, t)
      used == used_of(u1, e)
  IN  IF used >= MAX_FREE_WALLET_CHECKS
      THEN [users |-> u1, allowed |-> FALSE, left |-> 0, error |-> LimitMessage]
      ELSE [users |-> IF e \in DOMAIN u1
                      THEN [u1 EXCEPT ![e].wallet_checks_today = used + 1] ELSE u1,
            allowed |-> TRUE, left |-> max0(MAX_FREE_WALLET_CHECKS - (used + 1)),
            error |-> "None"]

try_consume_no_reset(u, e, t) ==
  IF has_active_subscription(u, e, t)
  THEN [users |-> u, allowed |-> TRUE, left |-> -1, error |-> "None"]
  ELSE LET used == used_of(u, e)
       IN  IF used >= MAX_FREE_WALLET_CHECKS
           THEN [users |-> u, allowed |-> FALSE, left |-> 0, error |-> LimitMessage]
           ELSE [users |-> IF e \in DOMAIN u
                           THEN [u EXCEPT ![e].wallet_checks_today = used + 1] ELSE u,
                 allowed |-> TRUE, left |-> max0(MAX_FREE_WALLET_CHECKS - (used + 1)),
                 error |-> "None"]

try_consume_off_by_one(u, e, t) ==
  IF has_active_subscription(u, e, t)
  THEN [users |-> u, allowed |-> TRUE, left |-> -1, error |-> "None"]
  ELSE LET u1 == reset_daily_if_needed(u, e, t)
           used == used_of(u1, e)
       IN  IF used > MAX_FREE_WALLET_CHECKS
           THEN [users |-> u1, allowed |-> FALSE, left |-> 0, error |-> LimitMessage]
           ELSE [users |-> IF e \in DOMAIN u1
                           THEN [u1 EXCEPT ![e].wallet_checks_today = used + 1] ELSE u1,
                 allowed |-> TRUE, left |-> max0(MAX_FREE_WALLET_CHECKS - (used + 1)),
                 error |-> "None"]

try_consume_wallet_check(u, e, t) ==
  IF has_active_subscription(u, e, t)
  THEN [users |-> u, allowed |-> TRUE, left |-> -1, error |-> "None"]
  ELSE LET u1 == reset_daily_if_needed(u, e, t)
           used == used_of(u1, e)
       IN  IF used >= MAX_FREE_WALLET_CHECKS
           THEN [users |-> u1, allowed |-> FALSE, left |-> 0, error |-> LimitMessage]
           ELSE [users |-> IF e \in DOMAIN u1
                           THEN [u1 EXCEPT ![e].wallet_checks_today = used + 1] ELSE u1,
                 allowed |-> TRUE, left |-> max0(MAX_FREE_WALLET_CHECKS - (used + 1)),
                 error |-> "None"]

get_limits_badge(u, e, t) ==
  LET premium == has_active_subscription(u, e, t)
      usage == get_wallet_usage(u, e, t)
  IN  [users |-> IF premium THEN u ELSE usage.users,
       is_premium |-> premium,
       days_left |-> IF premium THEN days_left(u, e, t) ELSE 0,
       used_today |-> IF premium THEN 0 ELSE usage.used,
       left_today |-> IF premium THEN -1 ELSE usage.left,
       max_free |-> MAX_FREE_WALLET_CHECKS]

\* ------------------------------------------------- the ledger's operations
\* the days arguments the ledger's callers pass explicitly
GrantDays == 1..MaxGrantDays

NoneServed == [e \in Emails |-> 0]

\* no concurrent caller, no scoring call
Quiet ==
  /\ pc = << >>
  /\ loc = << >>
  /\ lock = 0
  /\ txn = << >>
  /\ input = << >>
  /\ served = NoneServed

\* init_db() on a fresh database: the table exists and is empty
Init ==
  /\ now = 0
  /\ users = << >>
  /\ ret = [op |-> "init"]
  /\ Quiet

TickSecond ==
  /\ now % SecondsPerDay < MaxSec
  /\ now' = now + 1
  /\ ret' = [op |-> "clock", pre |-> users]
  /\ UNCHANGED <<users, callers, input, served>>

NextDay ==
  /\ today(now) < MaxDay
  /\ now' = (today(now) + 1) * SecondsPerDay
  /\ ret' = [op |-> "clock", pre |-> users]
  /\ served' = NoneServed
  /\ UNCHANGED <<users, callers, input>>

CreateUser(e) ==
  /\ e \notin DOMAIN users
  /\ users' = create_user(users, e)
  /\ ret' = [op |-> "create_user", email |-> e, pre |-> users]
  /\ UNCHANGED <<now, callers, input, served>>

HasActiveSubscription(e) ==
  /\ ret' = [op |-> "has_active_subscription", email |-> e, pre |-> users,
             result |-> has_active_subscription(users, e, now)]
  /\ UNCHANGED <<now, users, callers, input, served>>

SetSubscription(e, sub, days) ==
  LET u1 == set_subscription(users, e, sub, days, now)
      d == IF days = NULL THEN DEFAULT_SUBSCRIPTION_DAYS ELSE days
  IN  /\ e \in DOMAIN u1 => int_or_0(u1[e].subscription_until) <= now + MaxStack * d * SecondsPerDay
      /\ users' = u1
      /\ ret' = [op |-> "set_subscription", email |-> e, pre |-> users,
                 sub |-> sub, days |-> days]
      /\ served' = IF sub # 0 THEN [served EXCEPT ![e] = 0] ELSE served
      /\ UNCHANGED <<now, callers, input>>

GetWalletUsage(e) ==
  LET r == get_wallet_usage(users, e, now)
  IN  /\ users' = r.users
      /\ ret' = [op |-> "get_wallet_usage", email |-> e, pre |-> users,
                 used |-> r.used, left |-> r.left]
      /\ UNCHANGED <<now, callers, input, served>>

TryConsume(e) ==
  LET r == try_consume_wallet_check(users, e, now)
  IN  /\ users' = r.users
      /\ ret' = [op |-> "try_consume_wallet_check", email |-> e, pre |-> users,
                 allowed |-> r.allowed, left |-> r.left, error |-> r.error]
      /\ served' = IF e \in DOMAIN users /\ r.allowed /\ r.left # -1
                    THEN [served EXCEPT ![e] = @ + 1] ELSE served
      /\ UNCHANGED <<now, callers, input>>

GetLimitsBadge(e) ==
  LET r == get_limits_badge(users, e, now)
  IN  /\ users' = r.users
      /\ ret' = [op |-> "get_limits_badge", email |-> e, pre |-> users,
                 is_premium |-> r.is_premium, days_left |-> r.days_left,
                 used_today |-> r.used_today, left_today |-> r.left_today]
      /\ UNCHANGED <<now, callers, input, served>>

Next ==
  \/ TickSecond
  \/ NextDay
  \/ \E e \in MeterEmails : CreateUser(e)
  \/ \E e \in LedgerEmails : HasActiveSubscription(e)
  \/ \E e \in LedgerEmails, sub \in {0, 1}, days \in GrantDays : SetSubscription(e, sub, days)
  \/ \E e \in MeterEmails : GetWalletUsage(e)
  \/ \E e \in MeterEmails : TryConsume(e)
  \/ \E e \in LedgerEmails : GetLimitsBadge(e)

Spec == Init /\ [][Next]_vars

\* ------------------------------------------------------ ledger properties
\* what the last operation was called on
IsOp(name) == ret.op = name
PreHasRow == ret.email \in DOMAIN ret.pre
PreRow == ret.pre[ret.email]
PostRow == users[ret.email]
\* the stored flag is set and the stored expiry is strictly after the clock
PreSubscribed ==
  /\ PreHasRow
  /\ PreRow.subscription = 1
  /\ PreRow.subscription_until # NULL
  /\ PreRow.subscription_until > now
Day == now \div SecondsPerDay
MeteredTryConsume == IsOp("try_consume_wallet_check") /\ PreHasRow /\ ~PreSubscribed

\* C2: a try_consume call of a non-subscribed identity whose counter is at
\* the daily limit with last_reset_day on an earlier day succeeds, leaves
\* count_today = 1 and last_reset_day = today, and returns remaining = limit - 1.
C2_Rollover ==
  (/\ MeteredTryConsume
   /\ PreRow.wallet_checks_today = MAX_FREE_WALLET_CHECKS
   /\ PreRow.last_wallet_check # NULL
   /\ PreRow.last_wallet_check < Day)
  => /\ ret.allowed = TRUE
     /\ PostRow.wallet_checks_today = 1
     /\ PostRow.last_wallet_check = Day
     /\ ret.left = MAX_FREE_WALLET_CHECKS - 1

C2_Witness ==
  /\ MeteredTryConsume
  /\ PreRow.wallet_checks_today = MAX_FREE_WALLET_CHECKS
  /\ PreRow.last_wallet_check # NULL
  /\ PreRow.last_wallet_check < Day
  /\ ret.allowed = TRUE
  /\ PostRow.wallet_checks_today = 1

\* C3: try_consume for an identity whose subscription is active and unexpired
\* returns (true, -1, none) and leaves the identity's row, counter and
\* last_reset_day included, exactly as it was.
C3_SubscriberBypass ==
  (IsOp("try_consume_wallet_check") /\ PreSubscribed)
  => /\ ret.allowed = TRUE
     /\ ret.left = -1
     /\ ret.error = "None"
     /\ users = ret.pre

\* a subscriber's call on a day after the row's last_reset_day
C3_Witness ==
  /\ IsOp("try_consume_wallet_check")
  /\ PreSubscribed
  /\ PreRow.last_wallet_check # Day
  /\ ret.left = -1
  /\ PostRow.last_wallet_check = PreRow.last_wallet_check

\* C4: try_consume for an identity with no stored row persists the
\* consumption: an allowed call leaves a row for the identity whose
\* count_today is 1.
C4_ImplicitRow ==
  (IsOp("try_consume_wallet_check") /\ ~PreHasRow /\ ret.allowed = TRUE)
  => /\ ret.email \in DOMAIN users
     /\ PostRow.wallet_checks_today = 1

\* the counter a metered call sees after the lazy day reset
CountAfterReset ==
  IF PreRow.last_wallet_check # Day THEN 0 ELSE PreRow.wallet_checks_today

\* C5: for a non-subscribed identity (count_today being a field of its row),
\* try_consume returns (false, 0, limit-reached error) exactly when count_today
\* after the lazy reset is >= the configured limit, and then leaves count_today
\* unchanged; otherwise it increments count_today by exactly 1, persists it and
\* returns (true, limit - new_count, none).
C5_ExhaustionIsAValue ==
  MeteredTryConsume
  => /\ (CountAfterReset >= MAX_FREE_WALLET_CHECKS)
          => /\ ret.allowed = FALSE
             /\ ret.left = 0
             /\ ret.error # "None"
             /\ PostRow.wallet_checks_today = CountAfterReset
     /\ (CountAfterReset < MAX_FREE_WALLET_CHECKS)
          => /\ ret.allowed = TRUE
             /\ PostRow.wallet_checks_today = CountAfterReset + 1
             /\ ret.left = MAX_FREE_WALLET_CHECKS - (CountAfterReset + 1)
             /\ ret.error = "None"

\* a denied call at exactly the limit, the counter left where it was
C5_Witness ==
  /\ MeteredTryConsume
  /\ PreRow.last_wallet_check = Day
  /\ PreRow.wallet_checks_today = MAX_FREE_WALLET_CHECKS
  /\ ret.allowed = FALSE
  /\ PostRow.wallet_checks_today = MAX_FREE_WALLET_CHECKS

\* C6: set_subscription(identity, 1, days) on a stored identity sets the flag,
\* sets expires_at = max(now, the current expiry if active and unexpired) +
\* days*86400 and resets count_today to 0; a second grant at the same instant
\* therefore gives now + 2*days*86400, and a grant after expiry or after a
\* revoke starts from now.
C6_GrantStacks ==
  (IsOp("set_subscription") /\ ret.sub = 1 /\ PreHasRow)
  => /\ PostRow.subscription = 1
     /\ PostRow.subscription_until =
          (IF PreSubscribed THEN PreRow.subscription_until ELSE now)
            + ret.days * SecondsPerDay
     /\ PostRow.wallet_checks_today = 0

\* the second of two grants of the same length at one instant
C6_Witness ==
  /\ IsOp("set_subscription") /\ ret.sub = 1 /\ PreHasRow
  /\ PreRow.subscription_until = now + ret.days * SecondsPerDay
  /\ PostRow.subscription_until = now + 2 * ret.days * SecondsPerDay

\* C7: has_active_subscription is true iff the row exists, the flag is set and
\* expires_at > now strictly (expires_at = now gives false); once the clock has
\* reached expires_at a try_consume call is metered again.
C7_StrictExpiry ==
  /\ IsOp("has_active_subscription")
       => (ret.result = TRUE <=> /\ PreHasRow
                                 /\ PreRow.subscription = 1
                                 /\ PreRow.subscription_until # NULL
                                 /\ PreRow.subscription_until > now)
  /\ (/\ IsOp("try_consume_wallet_check") /\ PreHasRow
      /\ PreRow.subscription = 1 /\ PreRow.subscription_until <= now)
       => ret.left # -1

\* the boundary: the flag set, the expiry equal to the clock, the answer false
C7_Witness ==
  /\ IsOp("has_active_subscription") /\ PreHasRow
  /\ PreRow.subscription = 1
  /\ PreRow.subscription_until = now
  /\ ret.result = FALSE

\* a metered access: a try_consume or a usage read that is not bypassed
MeteredAccess ==
  /\ ret.op \in {"try_consume_wallet_check", "get_wallet_usage", "get_limits_badge"}
  /\ PreHasRow
  /\ ret.op \in {"try_consume_wallet_check", "get_limits_badge"} => ~PreSubscribed

\* C9: a metered access on a day other than last_reset_day resets the counter
\* to 0 (a try_consume then counts its own unit) and sets last_reset_day to
\* today; an access on the day of last_reset_day resets nothing; a clock step,
\* a subscription query and an operation on another identity change no counter.
C9_LazyResetOncePerDay ==
  /\ (MeteredAccess /\ PreRow.last_wallet_check # Day)
       => /\ PostRow.last_wallet_check = Day
          /\ PostRow.wallet_checks_today =
               (IF IsOp("try_consume_wallet_check") /\ MAX_FREE_WALLET_CHECKS > 0
                THEN 1 ELSE 0)
  /\ (MeteredAccess /\ PreRow.last_wallet_check = Day)
       => /\ PostRow.last_wallet_check = PreRow.last_wallet_check
          /\ PostRow.wallet_checks_today >= PreRow.wallet_checks_today
  /\ ret.op \in {"clock", "has_active_subscription"} => users = ret.pre
  /\ ret.op \notin {"init", "clock"}
       => \A x \in DOMAIN ret.pre : x # ret.email => users[x] = ret.pre[x]

\* a usage read on a later day that clears a used counter
C9_Witness ==
  /\ IsOp("get_wallet_usage") /\ PreHasRow
  /\ PreRow.last_wallet_check # NULL
  /\ PreRow.last_wallet_check < Day
  /\ PreRow.wallet_checks_today > 0
  /\ PostRow.wallet_checks_today = 0
  /\ PostRow.last_wallet_check = Day

\* C19: after any sequence of try_consume, usage reads, grants, revokes and
\* day advances, one after the other, every stored row has 0 <= count_today
\* <= the daily limit, and the allowed=true results a stored, unsubscribed
\* identity got within one calendar day since its last grant never exceed
\* the daily limit.
C19_CounterBound ==
  \A e \in DOMAIN users :
    /\ users[e].wallet_checks_today >= 0
    /\ users[e].wallet_checks_today <= MAX_FREE_WALLET_CHECKS
    /\ served[e] <= MAX_FREE_WALLET_CHECKS

\* the limit used up, a day advance, and the first allowed call of the new day
C19_Witness ==
  /\ IsOp("try_consume_wallet_check")
  /\ PreHasRow
  /\ today(now) > 0
  /\ PreRow.wallet_checks_today = MAX_FREE_WALLET_CHECKS
  /\ PreRow.last_wallet_check # today(now)
  /\ ret.allowed
  /\ served[ret.email] = 1
  /\ PostRow.wallet_checks_today = 1

\* ----------------------------------------------------- sources.py, checks.py
\* the explorer codes of SCAN_BASE, the EVM family of wallet_check
EVM_CODES == {"ETH", "BSC", "POLYGON", "ARB", "OPT", "AVAX-C", "FTM", "CRO"}

\* the ordered table: the display name and the code of each entry
NETWORKS ==
  << [name |-> "Bitcoin", code |-> "BTC"],
     [name |-> "Litecoin", code |-> "LTC"],
     [name |-> "Bitcoin Cash", code |-> "BCH"],
     [name |-> "Dogecoin", code |-> "DOGE"],
     [name |-> "Ethereum (Mainnet)", code |-> "ETH"],
     [name |-> "BNB Smart Chain", code |-> "BSC"],
     [name |-> "Polygon (MATIC)", code |-> "POLYGON"],
     [name |-> "Arbitrum One", code |-> "ARB"],
     [name |-> "Optimism", code |-> "OPT"],
     [name |-> "Avalanche C-Chain", code |-> "AVAX-C"],
     [name |-> "Fantom", code |-> "FTM"],
     [name |-> "Cronos", code |-> "CRO"],
     [name |-> "TRON (TRC-20)", code |-> "TRX"],
     [name |-> "Solana", code |-> "SOL"],
     [name |-> "XRP (Ripple)", code |-> "XRP"],
     [name |-> "BNB Beacon (BEP-2)", code |-> "BNB"],
     [name |-> "Cosmos (ATOM)", code |-> "ATOM"],
     [name |-> "Cardano", code |-> "ADA"],
     [name |-> "Polkadot", code |-> "DOT"],
     [name |-> "Near Protocol", code |-> "NEAR"],
     [name |-> "Tezos", code |-> "XTZ"],
     [name |-> "TON", code |-> "TON"] >>

\* The shapes of the address strings scored, after strip(): one example
\* address of every family of the table, and "none", a string no pattern
\* matches (the empty string included).
\*   "btc"  1 and 33 base58 characters      "ltc"  L and 33 base58 characters
\*   "bch"  bitcoincash:q and 41 characters "doge" D and 33 base58 characters
\*   "evm"  0x and 40 hex digits            "tron" T and 33 base58 characters
\*   "sol"  44 base58 characters            "xrp"  r and 33 base58 characters
\*   "bnb"  bnb1 and 38 characters          "atom" cosmos1 and 38 characters
\*   "ada"  addr1 and 98 characters         "dot"  1 and 47 base58 characters
\*   "near" alice.near                      "xtz"  tz1 and 33 base58 characters
\*   "ton"  EQ and 46 characters
AddressShapes ==
  {"btc", "ltc", "bch", "doge", "evm", "tron", "sol", "xrp", "bnb", "atom",
   "ada", "dot", "near", "xtz", "ton", "none"}

\* n.regex.match(a): the codes whose pattern matches a string of the shape.
\* The eight EVM entries share one pattern; the Solana pattern (32 to 44
\* base58 characters) also matches the 34 characters of "btc", "ltc", "doge",
\* "tron" and "xrp" and the 36 characters of "xtz".
regex_match(code, shape) ==
  CASE shape = "evm"  -> code \in EVM_CODES
    [] shape = "btc"  -> code \in {"BTC", "SOL"}
    [] shape = "ltc"  -> code \in {"LTC", "SOL"}
    [] shape = "bch"  -> code = "BCH"
    [] shape = "doge" -> code \in {"DOGE", "SOL"}
    [] shape = "tron" -> code \in {"TRX", "SOL"}
    [] shape = "sol"  -> code = "SOL"
    [] shape = "xrp"  -> code \in {"SOL", "XRP"}
    [] shape = "bnb"  -> code = "BNB"
    [] shape = "atom" -> code = "ATOM"
    [] shape = "ada"  -> code = "ADA"
    [] shape = "dot"  -> code = "DOT"
    [] shape = "near" -> code = "NEAR"
    [] shape = "xtz"  -> code \in {"SOL", "XTZ"}
    [] shape = "ton"  -> code = "TON"
    [] OTHER          -> FALSE

\* the index of the first entry whose pattern matches, 0 for None
detect_network(a) ==
  LET hits == {i \in 1..Len(NETWORKS) : regex_match(NETWORKS[i].code, a.shape)}
  IN  IF hits = {} THEN 0 ELSE CHOOSE i \in hits : \A j \in hits : i <= j

\* round(raw / 255 * 100) for raw = int(h[:2], 16): no raw in 0..255 is a tie
stable_score(raw) == (200 * raw + 255) \div 510

\* What the explorer does with the two GETs of check_evm_wallet:
\* "result" answers both with a JSON object whose result is a balance and a
\* list; "notok" answers with a JSON object whose result is a message (a rate
\* limit, a bad key); "exception" is a timeout, a transport error or a body
\* that is not JSON.
Upstreams ==
  {[key |-> FALSE, fetch |-> "none", balance_wei |-> 0, txs |-> 0]}
    \cup {[key |-> TRUE, fetch |-> f, balance_wei |-> 0, txs |-> 0] : f \in {"notok", "exception"}}
    \cup {[key |-> TRUE, fetch |-> "result", balance_wei |-> b, txs |-> n] :
            b \in {0, 1}, n \in {0, 1, 5}}

check_evm_wallet(up) ==
  IF ~up.key THEN [outcome |-> "return", ok |-> FALSE]
  ELSE IF up.fetch = "exception" THEN [outcome |-> "raise"]
  ELSE IF up.fetch = "notok"
       THEN [outcome |-> "return", ok |-> TRUE, balance_wei |-> 0, tx_count |-> 0]
       ELSE [outcome |-> "return", ok |-> TRUE,
             balance_wei |-> up.balance_wei, tx_count |-> up.txs]

label_of_gt(score) ==
  IF score > 80 THEN [label |-> "Safe", color |-> "green"]
  ELSE IF score > 50 THEN [label |-> "Caution", color |-> "yellow"]
  ELSE [label |-> "Risk", color |-> "red"]

\* the if / elif / else on the final score
label_of(score) ==
  IF score >= 80 THEN [label |-> "Safe", color |-> "green"]
  ELSE IF score >= 50 THEN [label |-> "Caution", color |-> "yellow"]
  ELSE [label |-> "Risk", color |-> "red"]

max2_left(x, y) == x

max2(x, y) == IF x >= y THEN x ELSE y

signals_detect_always(label, i, found) ==
  << [text |-> "Detected network", arg |-> i] >> \o found

\* signals.insert(0, "Detected network: ...") under Safe and Caution; under
\* Risk the list as collected, or the one generic signal when it is empty
signals_of(label, i, found) ==
  IF label \in {"Safe", "Caution"}
  THEN << [text |-> "Detected network", arg |-> i] >> \o found
  ELSE IF found = << >>
       THEN << [text |-> "Suspicious heuristics", arg |-> 0] >>
       ELSE found

wallet_check(a, up) ==
  LET i == detect_network(a)
      net == NETWORKS[i]
      base == stable_score(a.raw)
      evm == check_evm_wallet(up)
      isevm == net.code \in EVM_CODES
      seen == isevm /\ evm.ok /\ (evm.balance_wei > 0 \/ evm.tx_count > 0)
      score == IF seen THEN max2(base, 60) ELSE base
      found == IF ~isevm THEN << >>
               ELSE IF evm.ok
                    THEN << [text |-> "Balance", arg |-> evm.balance_wei],
                            [text |-> "Transactions", arg |-> evm.tx_count] >>
                    ELSE << [text |-> "EVM explorer check failed", arg |-> 0] >>
      lab == label_of(score)
      signals == signals_of(lab.label, i, found)
  IN  IF i = 0 THEN [outcome |-> "return", ok |-> FALSE, error |-> "Invalid address"]
      ELSE IF isevm /\ evm.outcome = "raise" THEN [outcome |-> "raise"]
      ELSE [outcome |-> "return", ok |-> TRUE, network |-> net.name, code |-> net.code,
            score |-> score, label |-> lab.label, color |-> lab.color,
            signals |-> signals]

\* ------------------------------------------------------- one scoring call
Addresses == [shape : AddressShapes, raw : 0..255]

InitWallet ==
  /\ now = 0
  /\ users = << >>
  /\ ret = [op |-> "init"]
  /\ pc = << >>
  /\ loc = << >>
  /\ lock = 0
  /\ txn = << >>
  /\ input \in [address : Addresses, upstream : Upstreams]
  /\ served = NoneServed

WalletCheck ==
  /\ ret.op = "init"
  /\ ret' = [op |-> "wallet_check", result |-> wallet_check(input.address, input.upstream)]
  /\ UNCHANGED <<now, users, callers, input, served>>

NextWallet == WalletCheck

SpecWallet == InitWallet /\ [][NextWallet]_vars

\* ------------------------------------------------------ wallet properties
WalletVerdict ==
  /\ ret.op = "wallet_check"
  /\ ret.result.outcome = "return"
  /\ ret.result.ok

\* the explorer answered and reported a balance or a transaction
ActivitySeen ==
  /\ input.address.shape = "evm"
  /\ input.upstream.key
  /\ input.upstream.fetch = "result"
  /\ input.upstream.balance_wei > 0 \/ input.upstream.txs > 0

\* C10: every wallet verdict has a final score in 0..100 and exactly the label
\* of that score: >= 80 Safe/green, 50..79 Caution/yellow, < 50 Risk/red; the
\* label is that of the score after the floor, so a baseline under 50 raised
\* by the floor is labelled Caution, not Risk.
C10_LabelThresholds ==
  WalletVerdict
  => LET s == ret.result.score
         l == ret.result.label
         c == ret.result.color
     IN  /\ s \in 0..100
         /\ s >= 80 => (l = "Safe" /\ c = "green")
         /\ (s >= 50 /\ s < 80) => (l = "Caution" /\ c = "yellow")
         /\ s < 50 => (l = "Risk" /\ c = "red")
         /\ (ActivitySeen /\ stable_score(input.address.raw) < 50) => l = "Caution"

\* a baseline under 50 raised to 60 by the floor and labelled from the 60
C10_Witness ==
  /\ WalletVerdict
  /\ ActivitySeen
  /\ stable_score(input.address.raw) < 50
  /\ ret.result.score = 60
  /\ ret.result.label = "Caution"

\* the score of the digest byte alone
Baseline == stable_score(input.address.raw)

\* C11: for an EVM-family address whose enrichment succeeds and reports a
\* balance or a transaction, the final score is max(baseline, 60), so at least
\* 60 and never labelled Risk; when the enrichment reports neither, or fails,
\* or the network is not EVM-family, the final score is the baseline.
C11_EnrichmentFloor ==
  WalletVerdict
  => /\ ActivitySeen
          => /\ ret.result.score = (IF Baseline >= 60 THEN Baseline ELSE 60)
             /\ ret.result.score >= 60
             /\ ret.result.label # "Risk"
     /\ ~ActivitySeen => ret.result.score = Baseline

\* baseline 20, five transactions reported: final score 60
C11_Witness ==
  /\ WalletVerdict
  /\ ActivitySeen
  /\ input.upstream.txs = 5
  /\ Baseline = 20
  /\ ret.result.score = 60

\* C12: whatever the explorer does (answers, answers without a result, has
\* no key, times out, sends a body that is not JSON), wallet_check returns a
\* verdict and raises nothing to its caller.
C12_NoEscape ==
  ret.op = "wallet_check" => ret.result.outcome = "return"

\* the codes a string of the shape is an example address of
ExampleOf(shape) ==
  CASE shape = "evm"  -> EVM_CODES
    [] shape = "btc"  -> {"BTC"}
    [] shape = "ltc"  -> {"LTC"}
    [] shape = "bch"  -> {"BCH"}
    [] shape = "doge" -> {"DOGE"}
    [] shape = "tron" -> {"TRX"}
    [] shape = "sol"  -> {"SOL"}
    [] shape = "xrp"  -> {"XRP"}
    [] shape = "bnb"  -> {"BNB"}
    [] shape = "atom" -> {"ATOM"}
    [] shape = "ada"  -> {"ADA"}
    [] shape = "dot"  -> {"DOT"}
    [] shape = "near" -> {"NEAR"}
    [] shape = "xtz"  -> {"XTZ"}
    [] shape = "ton"  -> {"TON"}
    [] OTHER          -> {}

\* C13: detect_network applied to an example address of a network of the
\* table returns that network's code, for every code of the table; for a
\* string no pattern matches it returns none and wallet_check returns ok:false.
C13_ClassificationTotality ==
  ret.op = "wallet_check"
  => LET i == detect_network(input.address)
     IN  /\ \A c \in ExampleOf(input.address.shape) : i # 0 /\ NETWORKS[i].code = c
         /\ input.address.shape = "none"
              => (i = 0 /\ ret.result.outcome = "return" /\ ~ret.result.ok)

\* the enrichment signals wallet_check collects for the input, in order
Collected ==
  IF input.address.shape # "evm" THEN << >>
  ELSE IF ~input.upstream.key
       THEN << [text |-> "EVM explorer check failed", arg |-> 0] >>
       ELSE IF input.upstream.fetch = "result"
            THEN << [text |-> "Balance", arg |-> input.upstream.balance_wei],
                    [text |-> "Transactions", arg |-> input.upstream.txs] >>
            ELSE << [text |-> "Balance", arg |-> 0], [text |-> "Transactions", arg |-> 0] >>

Detections(sig) == {k \in 1..Len(sig) : sig[k].text = "Detected network"}

\* C16: in a verdict labelled Safe or Caution the first signal is the
\* detection signal of the detected network, it occurs once, and the
\* enrichment signals follow in the order collected; in a verdict labelled
\* Risk there is no detection signal, the collected signals are returned as
\* they are, and the generic signal is the only signal exactly when nothing
\* was collected; the list is never empty.
C16_SignalOrdering ==
  WalletVerdict
  => LET sig == ret.result.signals
         generic == << [text |-> "Suspicious heuristics", arg |-> 0] >>
     IN  /\ Len(sig) >= 1
         /\ ret.result.label \in {"Safe", "Caution"}
              => /\ sig[1] = [text |-> "Detected network",
                              arg |-> detect_network(input.address)]
                 /\ Detections(sig) = {1}
                 /\ Tail(sig) = Collected
         /\ ret.result.label = "Risk"
              => /\ Detections(sig) = {}
                 /\ Collected # << >> => sig = Collected
                 /\ (sig = generic) <=> (Collected = << >>)

\* a Risk verdict that returns the failed-enrichment signal alone
C16_Witness ==
  /\ WalletVerdict
  /\ ret.result.label = "Risk"
  /\ input.address.shape = "evm"
  /\ ~input.upstream.key
  /\ ret.result.signals = << [text |-> "EVM explorer check failed", arg |-> 0] >>

\* ------------------------------------------------ sources.py, link checks
\* A link after strip(): blank is the empty string; dc, join and user say
\* whether DC_INV_RE, TG_JOIN_RE and TG_USER_RE find a match in it (search
\* looks anywhere in the string, so one link can match several).
Links ==
  {l \in [blank : BOOLEAN, dc : BOOLEAN, join : BOOLEAN, user : BOOLEAN] :
     l.blank => (~l.dc /\ ~l.join /\ ~l.user)}

\* approximate_member_count of the invite payload, NULL when it is missing
MemberCounts == {NULL, 0, 9, 10, 99, 100, 5000}

\* What the GET of the Discord invite API does: "exception" is a timeout or
\* a transport error; body "notjson" is a payload r.json() cannot parse.
DcFetches ==
  {[kind |-> "exception", status |-> 0, body |-> "none", members |-> NULL]}
    \cup {[kind |-> "response", status |-> st, body |-> "none", members |-> NULL] :
            st \in {404, 403, 429, 500}}
    \cup {[kind |-> "response", status |-> 200, body |-> "notjson", members |-> NULL]}
    \cup {[kind |-> "response", status |-> 200, body |-> "json", members |-> m] :
            m \in MemberCounts}

\* What the GET of https://t.me/<username> does: notfound and markers say
\* whether the lowered page text holds "not found" and a channel marker.
TgFetches ==
  {[kind |-> "exception", status |-> 0, notfound |-> FALSE, markers |-> FALSE]}
    \cup {[kind |-> "response", status |-> st, notfound |-> nf, markers |-> mk] :
            st \in {200, 404, 410, 500}, nf \in BOOLEAN, mk \in BOOLEAN}

label_pack(r) ==
  IF r >= 70 THEN [label |-> "Risk", color |-> "red"]
  ELSE IF r >= 40 THEN [label |-> "Caution", color |-> "yellow"]
  ELSE [label |-> "Safe", color |-> "green"]

discord_risk_le(approx) ==
  IF approx >= 100 THEN 50 ELSE IF approx <= 10 THEN 75 ELSE 55

\* risk = 50 if approx >= 100 else (75 if approx < 10 else 55)
discord_risk(approx) ==
  IF approx >= 100 THEN 50 ELSE IF approx < 10 THEN 75 ELSE 55

tg_classify_chat_first(tg) ==
  IF tg.kind = "exception" THEN "error"
  ELSE IF tg.markers THEN "chat"
  ELSE IF tg.status \in {404, 410} \/ tg.notfound THEN "missing"
  ELSE "user"

\* the try / except, then nf, then is_chat, of the username branch
tg_classify(tg) ==
  IF tg.kind = "exception" THEN "error"
  ELSE IF tg.status \in {404, 410} \/ tg.notfound THEN "missing"
  ELSE IF tg.markers THEN "chat"
  ELSE "user"

link_verdict(platform, type, risk, lab, sig) ==
  [outcome |-> "return", ok |-> TRUE, platform |-> platform, type |-> type,
   risk |-> risk, label |-> lab.label, color |-> lab.color, signals |-> sig]

group_quick_check(l, dc, tg) ==
  IF l.blank THEN [outcome |-> "return", ok |-> FALSE, error |-> "Empty link."]
  ELSE IF l.dc
  THEN IF dc.kind = "exception" THEN [outcome |-> "raise"]
       ELSE IF dc.status = 404
       THEN link_verdict("Discord", "none", 85, [label |-> "Risk", color |-> "red"],
                         << "Detected platform: Discord",
                            "Discord API: invite not found (404)" >>)
       ELSE IF dc.status # 200
       THEN link_verdict("Discord", "none", 55, [label |-> "Caution", color |-> "yellow"],
                         << "Detected platform: Discord" >>)
       ELSE IF dc.body # "json" THEN [outcome |-> "raise"]
       ELSE LET risk == discord_risk(int_or_0(dc.members))
            IN  link_verdict("Discord", "none", risk, label_pack(risk),
                             << "Detected platform: Discord", "Members, Online" >>)
  ELSE IF ~(l.join \/ l.user)
  THEN [outcome |-> "return", ok |-> FALSE, error |-> "Provide a valid Telegram link"]
  ELSE IF l.join
  THEN link_verdict("Telegram", "invite", 50, label_pack(50),
                    << "Detected platform: Telegram", "Invite link pattern (+/joinchat)" >>)
  ELSE LET c == tg_classify(tg)
       IN  CASE c = "error" ->
                  link_verdict("Telegram", "user", 45, label_pack(45),
                    << "Detected platform: Telegram", "Network error - mannequin fallback" >>)
             [] c = "missing" ->
                  link_verdict("Telegram", "user_or_chat_missing", 85, label_pack(85),
                    << "Detected platform: Telegram", "Username not found on t.me" >>)
             [] c = "chat" ->
                  link_verdict("Telegram", "chat", 50, label_pack(50),
                    << "Detected platform: Telegram", "Channel/group markers on page" >>)
             [] OTHER ->
                  link_verdict("Telegram", "user", 45, label_pack(45),
                    << "Detected platform: Telegram",
                       "Username page reachable - treated as personal account" >>)

\* ---------------------------------------------------------- one link check
InitLink ==
  /\ now = 0
  /\ users = << >>
  /\ ret = [op |-> "init"]
  /\ pc = << >>
  /\ loc = << >>
  /\ lock = 0
  /\ txn = << >>
  /\ input \in [link : Links, discord : DcFetches, telegram : TgFetches]
  /\ served = NoneServed

GroupQuickCheck ==
  /\ ret.op = "init"
  /\ ret' = [op |-> "group_quick_check",
             result |-> group_quick_check(input.link, input.discord, input.telegram)]
  /\ UNCHANGED <<now, users, callers, input, served>>

NextLink == GroupQuickCheck

SpecLink == InitLink /\ [][NextLink]_vars

\* ---------------------------------------------------------- link properties
LinkVerdict ==
  /\ ret.op = "group_quick_check"
  /\ ret.result.outcome = "return"
  /\ ret.result.ok

\* the invite API answered a Discord invite link with a status and, under
\* 200, a JSON payload
DiscordAnswered ==
  /\ ret.op = "group_quick_check"
  /\ input.link.dc
  /\ input.discord.kind = "response"
  /\ input.discord.status = 200 => input.discord.body = "json"

\* C14: for a link matching the Discord invite pattern, an invite-API 404
\* gives score 85, Risk; any other non-200 status gives 55, Caution and no
\* signal beyond the platform; a 200 gives 75 under 10 members, 50 from 100
\* members on and 55 between, a missing count being 0, labelled by the link
\* thresholds (Risk from 70, Caution from 40).
C14_DiscordVerdicts ==
  DiscordAnswered
  => LET st == input.discord.status
         m == IF input.discord.members = NULL THEN 0 ELSE input.discord.members
         r == ret.result
     IN  /\ LinkVerdict
         /\ r.platform = "Discord"
         /\ st = 404 => (r.risk = 85 /\ r.label = "Risk")
         /\ st \notin {200, 404}
              => /\ r.risk = 55 /\ r.label = "Caution"
                 /\ r.signals = << "Detected platform: Discord" >>
         /\ st = 200
              => /\ m < 10 => r.risk = 75
                 /\ m >= 100 => r.risk = 50
                 /\ (m >= 10 /\ m < 100) => r.risk = 55
                 /\ r.label = (IF r.risk >= 70 THEN "Risk"
                               ELSE IF r.risk >= 40 THEN "Caution" ELSE "Safe")

\* an invite of exactly 10 members: 55, Caution
C14_Witness ==
  /\ DiscordAnswered
  /\ input.discord.status = 200
  /\ input.discord.members = 10
  /\ ret.result.risk = 55
  /\ ret.result.label = "Caution"

\* the link matches the Telegram username pattern and no other
UsernameOnly ==
  /\ ret.op = "group_quick_check"
  /\ input.link.user /\ ~input.link.dc /\ ~input.link.join

\* C15: for a link matching only the Telegram username pattern: a network
\* error gives 45, Caution, type user, with the fallback signal, and raises
\* nothing; else status 404 or 410 or not-found text gives 85, Risk; else
\* channel markers give 50, Caution, type chat; else 45, Caution, type user.
\* Not-found wins over channel markers.
C15_TelegramVerdicts ==
  UsernameOnly
  => LET tg == input.telegram
         r == ret.result
         nf == tg.kind = "response" /\ (tg.status \in {404, 410} \/ tg.notfound)
     IN  /\ LinkVerdict
         /\ r.platform = "Telegram"
         /\ tg.kind = "exception"
              => /\ r.risk = 45 /\ r.label = "Caution" /\ r.type = "user"
                 /\ r.signals[2] = "Network error - mannequin fallback"
         /\ nf => (r.risk = 85 /\ r.label = "Risk")
         /\ (tg.kind = "response" /\ ~nf /\ tg.markers)
              => (r.risk = 50 /\ r.label = "Caution" /\ r.type = "chat")
         /\ (tg.kind = "response" /\ ~nf /\ ~tg.markers)
              => (r.risk = 45 /\ r.label = "Caution" /\ r.type = "user")

\* a page with both not-found text and channel markers: Risk 85
C15_Witness ==
  /\ UsernameOnly
  /\ input.telegram.kind = "response"
  /\ input.telegram.status = 200
  /\ input.telegram.notfound /\ input.telegram.markers
  /\ ret.result.risk = 85
  /\ ret.result.label = "Risk"

\* --------------------------------- try_consume_wallet_check, caller by caller
\* NProcs callers run try_consume_wallet_check for one identity at once, each
\* on its own connection (two workers, or two threads, on one users.db).  A
\* SELECT outside a transaction reads the committed table.  The sqlite3 module
\* opens a transaction before the first UPDATE of a connection; the UPDATE
\* takes the database's write lock and waits while another connection holds
\* it (the busy timeout of connect(), 5 s; when it runs out the UPDATE raises
\* OperationalError).  A transaction's writes are private until commit().
Procs == 1..NProcs
Caller == "user"

\* the table as connection p reads it
view(p) == IF lock = p THEN txn[p] ELSE users

\* the table before the calls: the identity's row, not subscribed, count 0,
\* never used (last_wallet_check NULL) or already reset today
InitConc ==
  /\ now = 0
  /\ \E d \in {NULL, today(0)} :
       users = [e \in {Caller} |-> [NewRow EXCEPT !.last_wallet_check = d]]
  /\ ret = [op |-> "init"]
  /\ pc = [p \in Procs |-> "call"]
  /\ loc = [p \in Procs |-> [used |-> 0, allowed |-> FALSE, left |-> 0]]
  /\ lock = 0
  /\ txn = [p \in Procs |-> << >>]
  /\ input = << >>
  /\ served = NoneServed

\* line 100: if has_active_subscription(email): return True, -1, None
Call(p) ==
  /\ pc[p] = "call"
  /\ IF has_active_subscription(users, Caller, now)
     THEN /\ pc' = [pc EXCEPT ![p] = "done"]
          /\ loc' = [loc EXCEPT ![p].allowed = TRUE, ![p].left = -1]
     ELSE /\ pc' = [pc EXCEPT ![p] = "reset_select"]
          /\ loc' = loc
  /\ UNCHANGED <<now, users, ret, lock, txn, input, served>>

\* lines 82-86: the SELECT of _reset_daily_if_needed and its comparison
ResetSelect(p) ==
  /\ pc[p] = "reset_select"
  /\ pc' = [pc EXCEPT ![p] =
              IF Caller \in DOMAIN view(p) /\ view(p)[Caller].last_wallet_check # today(now)
              THEN "reset_update" ELSE "select"]
  /\ UNCHANGED <<now, users, ret, loc, lock, txn, input, served>>

\* lines 87-88: the UPDATE of _reset_daily_if_needed, the connection's first write
ResetUpdate(p) ==
  /\ pc[p] = "reset_update"
  /\ lock = 0
  /\ lock' = p
  /\ txn' = [txn EXCEPT ![p] = [users EXCEPT ![Caller].wallet_checks_today = 0,
                                             ![Caller].last_wallet_check = today(now)]]
  /\ pc' = [pc EXCEPT ![p] = "select"]
  /\ UNCHANGED <<now, users, ret, loc, input, served>>

\* lines 103-109: SELECT wallet_checks_today, the comparison, used += 1
Select(p) ==
  /\ pc[p] = "select"
  /\ LET used == used_of(view(p), Caller)
     IN  IF used >= MAX_FREE_WALLET_CHECKS
         THEN /\ pc' = [pc EXCEPT ![p] = "commit_denied"]
              /\ loc' = loc
         ELSE /\ pc' = [pc EXCEPT ![p] = "update"]
              /\ loc' = [loc EXCEPT ![p].used = used + 1]
  /\ UNCHANGED <<now, users, ret, lock, txn, input, served>>

\* line 110: UPDATE users SET wallet_checks_today=used
Update(p) ==
  /\ pc[p] = "update"
  /\ lock \in {0, p}
  /\ lock' = p
  /\ txn' = [txn EXCEPT ![p] =
               IF Caller \in DOMAIN view(p)
               THEN [view(p) EXCEPT ![Caller].wallet_checks_today = loc[p].used]
               ELSE view(p)]
  /\ pc' = [pc EXCEPT ![p] = "commit_allowed"]
  /\ UNCHANGED <<now, users, ret, loc, input, served>>

\* lines 107-108 and 111-113: commit(), close() and the return
Commit(p) ==
  /\ pc[p] \in {"commit_denied", "commit_allowed"}
  /\ IF lock = p
     THEN /\ users' = txn[p]
          /\ lock' = 0
          /\ txn' = [txn EXCEPT ![p] = << >>]
     ELSE UNCHANGED <<users, lock, txn>>
  /\ loc' = [loc EXCEPT ![p].allowed = (pc[p] = "commit_allowed"),
                        ![p].left = IF pc[p] = "commit_allowed"
                                    THEN max0(MAX_FREE_WALLET_CHECKS - loc[p].used)
                                    ELSE 0]
  /\ pc' = [pc EXCEPT ![p] = "done"]
  /\ UNCHANGED <<now, ret, input, served>>

\* an UPDATE that waited out the busy timeout raises; the call returns nothing
BusyTimeout(p) ==
  /\ pc[p] \in {"reset_update", "update"}
  /\ lock \notin {0, p}
  /\ pc' = [pc EXCEPT ![p] = "raised"]
  /\ UNCHANGED <<now, users, ret, loc, lock, txn, input, served>>

NextConc ==
  \/ \E p \in Procs : Call(p)
  \/ \E p \in Procs : ResetSelect(p)
  \/ \E p \in Procs : ResetUpdate(p)
  \/ \E p \in Procs : Select(p)
  \/ \E p \in Procs : Update(p)
  \/ \E p \in Procs : Commit(p)
  \/ \E p \in Procs : BusyTimeout(p)

SpecConc == InitConc /\ [][NextConc]_vars

min2(x, y) == IF x <= y THEN x ELSE y
AllReturned == \A p \in Procs : pc[p] = "done"
Successes == {p \in Procs : pc[p] = "done" /\ loc[p].allowed}

\* C1: when the NProcs concurrent calls for one non-subscribed identity that
\* started at count_today = 0 have all returned, exactly min(NProcs, limit) of
\* them were allowed and count_today = min(NProcs, limit).
C1_QuotaAtomicity ==
  AllReturned
  => /\ Cardinality(Successes) = min2(NProcs, MAX_FREE_WALLET_CHECKS)
     /\ users[Caller].wallet_checks_today = min2(NProcs, MAX_FREE_WALLET_CHECKS)

\* ------------------------------------------------------- auth.py, main.py
\* current_user hands a route the user cookie, which any client sets freely:
\* a request comes with any email, whether or not it has a row.
is_admin_nobody(e) == FALSE

is_admin(e) == e \in ADMIN_EMAILS

has_premium(u, e, t) == is_admin(e) \/ has_active_subscription(u, e, t)

\* register_user: the row is created unless that email has one
register_user(u, e) == IF e \in DOMAIN u THEN u ELSE create_user(u, e)

\* The identifier of an order, cut at its underscores.  The one
\* create_nowpayments_invoice makes for email e is sub_<e>_<time>_<uuid>.
invoice_order_id(e) == << "sub", e, "time", "uuid" >>
OrderIds ==
  {invoice_order_id(e) : e \in LedgerEmails} \cup {<< "sub", e >> : e \in LedgerEmails}
    \cup {<< "order" >>}

\* order_id.split("_", 1)[1] when order_id starts with sub_, else "": all that
\* follows the first underscore, the later underscores included
ipn_email(order_id) ==
  IF Len(order_id) >= 2 /\ order_id[1] = "sub"
  THEN IF Len(order_id) = 2 THEN order_id[2] ELSE "<email>_<time>_<uuid>"
  ELSE ""

\* the addresses and explorer outcomes the wallet route is driven with
RouteAddresses ==
  {[shape |-> "evm", raw |-> 0], [shape |-> "sol", raw |-> 255], [shape |-> "none", raw |-> 0]}
RouteUpstreams ==
  {u \in Upstreams : ~u.key \/ u.fetch = "exception" \/ (u.balance_wei = 1 /\ u.txs = 1)}
\* the explorer is asked about EVM addresses only
RouteChecks ==
  {c \in [address : RouteAddresses, upstream : RouteUpstreams] :
     c.address.shape # "evm" => ~c.upstream.key}

\* the notifications posted to the IPN route: without a configured secret or
\* with a bad signature the body is not read
IpnPosts ==
  {n \in [secret : BOOLEAN, sigok : BOOLEAN,
          status : {"finished", "confirmed", "waiting"}, order_id : OrderIds] :
     (~n.secret \/ ~n.sigok) => (n.status = "finished" /\ n.order_id = << "sub", "user" >>)}

InitApp == Init

\* any GET page: its only effect is get_limits_badge(email)
PageRoute(e) ==
  LET b == get_limits_badge(users, e, now)
  IN  /\ users' = b.users
      /\ ret' = [op |-> "page", email |-> e, pre |-> users,
                 sub |-> has_premium(users, e, now), left_today |-> b.left_today]
      /\ UNCHANGED <<now, callers, input, served>>

RegisterRoute(e) ==
  /\ users' = register_user(users, e)
  /\ ret' = [op |-> "register", email |-> e, pre |-> users, ok |-> e \notin DOMAIN users]
  /\ UNCHANGED <<now, callers, input, served>>

CheckWalletRoute_score_first(e, a, up) ==
  LET metered == ~is_admin(e) /\ ~has_active_subscription(users, e, now)
      result == wallet_check(a, up)
      rejected == result.outcome = "return" /\ ~result.ok
      c == try_consume_wallet_check(users, e, now)
      u1 == IF metered /\ ~rejected THEN c.users ELSE users
      denied == metered /\ ~c.allowed
      raised == ~denied /\ result.outcome = "raise"
      b == get_limits_badge(u1, e, now)
  IN  /\ users' = IF raised THEN u1 ELSE b.users
      /\ ret' = [op |-> "check_wallet", email |-> e, pre |-> users,
                 consumed |-> metered,
                 allowed |-> IF metered THEN c.allowed ELSE TRUE,
                 scored |-> ~denied,
                 result |-> IF denied THEN [outcome |-> "none"] ELSE result,
                 status |-> IF raised THEN 500 ELSE 200]
      /\ UNCHANGED <<now, callers, input, served>>

\* POST /check_wallet
CheckWalletRoute(e, a, up) ==
  LET metered == ~is_admin(e) /\ ~has_active_subscription(users, e, now)
      c == try_consume_wallet_check(users, e, now)
      u1 == IF metered THEN c.users ELSE users
      denied == metered /\ ~c.allowed
      result == wallet_check(a, up)
      raised == ~denied /\ result.outcome = "raise"
      b == get_limits_badge(u1, e, now)
  IN  /\ users' = IF raised THEN u1 ELSE b.users
      /\ ret' = [op |-> "check_wallet", email |-> e, pre |-> users,
                 consumed |-> metered,
                 allowed |-> IF metered THEN c.allowed ELSE TRUE,
                 scored |-> ~denied,
                 result |-> IF denied THEN [outcome |-> "none"] ELSE result,
                 status |-> IF raised THEN 500 ELSE 200]
      /\ UNCHANGED <<now, callers, input, served>>

\* POST /subscription/demo-activate
DemoActivateRoute(e) ==
  LET u1 == IF is_admin(e) THEN set_subscription(users, e, 1, NULL, now) ELSE users
  IN  /\ e \in DOMAIN u1 =>
            int_or_0(u1[e].subscription_until)
              <= now + MaxStack * DEFAULT_SUBSCRIPTION_DAYS * SecondsPerDay
      /\ users' = u1
      /\ ret' = [op |-> "demo_activate", email |-> e, pre |-> users, ok |-> is_admin(e)]
      /\ UNCHANGED <<now, callers, input, served>>

\* POST /subscription/ipn
SubscriptionIpn(secret, sigok, status, order_id) ==
  LET email == ipn_email(order_id)
      grant == secret /\ sigok /\ status \in {"finished", "confirmed"} /\ email # ""
      u1 == IF grant THEN set_subscription(users, email, 1, NULL, now) ELSE users
  IN  /\ email \in DOMAIN u1 =>
            int_or_0(u1[email].subscription_until)
              <= now + MaxStack * DEFAULT_SUBSCRIPTION_DAYS * SecondsPerDay
      /\ users' = u1
      /\ ret' = [op |-> "ipn", email |-> email, pre |-> users, order_id |-> order_id,
                 status |-> status, ok |-> secret /\ sigok, granted |-> grant]
      /\ UNCHANGED <<now, callers, input, served>>

\* the links the link routes are driven with: an invite link (no fetch), a
\* Discord invite the API answers with 404, and no link
RouteLinks ==
  {c \in [link : Links, discord : DcFetches, telegram : TgFetches] :
     /\ c.discord.status = 404
     /\ c.telegram.kind = "exception"
     /\ \/ c.link.blank
        \/ c.link.join /\ ~c.link.dc /\ ~c.link.user
        \/ c.link.dc /\ ~c.link.join /\ ~c.link.user}

\* GET /group: the link is scored for a premium caller only
GroupRoute(e, l) ==
  LET prem == has_premium(users, e, now)
      scored == prem /\ ~l.link.blank
      result == group_quick_check(l.link, l.discord, l.telegram)
      raised == scored /\ result.outcome = "raise"
      b == get_limits_badge(users, e, now)
  IN  /\ users' = IF raised THEN users ELSE b.users
      /\ ret' = [op |-> "group", email |-> e, pre |-> users, sub |-> prem,
                 scored |-> scored,
                 result |-> IF scored THEN result ELSE [outcome |-> "none"]]
      /\ UNCHANGED <<now, callers, input, served>>

\* GET /api/check, /api/group/check, /api/telegram/check: no cookie is read
ApiCheckRoute(l) ==
  /\ ret' = [op |-> "api_check", email |-> "", pre |-> users, scored |-> TRUE,
             result |-> group_quick_check(l.link, l.discord, l.telegram)]
  /\ UNCHANGED <<now, users, callers, input, served>>

NextApp ==
  \/ NextDay
  \/ \E e \in Emails, l \in RouteLinks : GroupRoute(e, l)
  \/ \E l \in RouteLinks : ApiCheckRoute(l)
  \/ \E e \in Emails : PageRoute(e)
  \/ \E e \in Emails : RegisterRoute(e)
  \/ \E e \in Emails, c \in RouteChecks : CheckWalletRoute(e, c.address, c.upstream)
  \/ \E e \in Emails : DemoActivateRoute(e)
  \/ \E n \in IpnPosts : SubscriptionIpn(n.secret, n.sigok, n.status, n.order_id)

SpecApp == InitApp /\ [][NextApp]_vars

\* C8: a wallet-check request of an allow-listed identity never calls
\* try_consume, is always scored and leaves the identity's count_today as it
\* was, whatever row the identity has (none, not subscribed, subscribed); and
\* every page computes has_premium as true for it.
C8_AdminBypass ==
  /\ (ret.op = "check_wallet" /\ ret.email \in ADMIN_EMAILS)
       => /\ ret.consumed = FALSE
          /\ ret.scored = TRUE
          /\ ret.email \in DOMAIN ret.pre
               => users[ret.email].wallet_checks_today
                    = ret.pre[ret.email].wallet_checks_today
          /\ ret.email \notin DOMAIN ret.pre => ret.email \notin DOMAIN users
  /\ (ret.op = "page" /\ ret.email \in ADMIN_EMAILS) => ret.sub = TRUE

\* an admin with a row and no subscription, checked on a day after the row's last reset
C8_Witness ==
  /\ ret.op = "check_wallet" /\ ret.email \in ADMIN_EMAILS
  /\ ret.email \in DOMAIN ret.pre
  /\ ret.pre[ret.email].subscription = 0
  /\ ret.pre[ret.email].last_wallet_check # NULL
  /\ ret.pre[ret.email].last_wallet_check # today(now)
  /\ ret.consumed = FALSE
  /\ ret.result.outcome = "return"

\* the caller of a wallet-check request is metered: not allow-listed and
\* without an active subscription when the request arrives
MeteredRequest ==
  /\ ret.op = "check_wallet"
  /\ ~is_admin(ret.email)
  /\ ~has_active_subscription(ret.pre, ret.email, now)

\* C17: a notification with a good signature and status finished or
\* confirmed that carries the order_id create_nowpayments_invoice made for a
\* registered email e grants to e itself, so that has_active_subscription(e)
\* holds afterwards; a notification with another status, a bad signature or
\* no configured secret changes no subscription state.
C17_PaymentRoundTrip ==
  ret.op = "ipn"
  => /\ \A e \in DOMAIN ret.pre :
          (ret.ok /\ ret.status \in {"finished", "confirmed"}
             /\ ret.order_id = invoice_order_id(e))
          => (ret.email = e /\ has_active_subscription(users, e, now))
     /\ ~(ret.ok /\ ret.status \in {"finished", "confirmed"}) => users = ret.pre

\* C18: a wallet-check request of a metered caller calls try_consume and
\* scores the address exactly when the call allowed it (a denied request has
\* no verdict); the unit is taken before the address is classified, so a
\* request whose address is rejected as invalid leaves the count_today of the
\* caller's row one higher than the lazy reset left it.
C18_ConsumeBeforeScore ==
  MeteredRequest
  => /\ ret.consumed
     /\ ret.scored <=> ret.allowed
     /\ ~ret.allowed => ret.result.outcome = "none"
     /\ (ret.allowed /\ ret.email \in DOMAIN ret.pre
           /\ ret.result.outcome = "return" /\ ~ret.result.ok)
          => users[ret.email].wallet_checks_today
               = (IF ret.pre[ret.email].last_wallet_check # today(now)
                  THEN 0 ELSE ret.pre[ret.email].wallet_checks_today) + 1

\* an allowed request with an invalid address that used up the last unit
C18_Witness ==
  /\ MeteredRequest
  /\ ret.email \in DOMAIN ret.pre
  /\ ret.allowed
  /\ ret.result.outcome = "return" /\ ~ret.result.ok
  /\ ret.pre[ret.email].last_wallet_check = today(now)
  /\ ret.pre[ret.email].wallet_checks_today = MAX_FREE_WALLET_CHECKS - 1
  /\ users[ret.email].wallet_checks_today = MAX_FREE_WALLET_CHECKS

====
